---- MODULE Spec2Model ----
(***************************************************************************)
(* wunderbase: the `migrate` subcommand (migrate.Database driven by        *)
(* runMigrate/main) and the `serve` subcommand (runServe driving           *)
(* queryengine.Run), modelled as state machines.                           *)
(*                                                                         *)
(* Spec       one `wunderbase migrate` process after another, sharing the  *)
(*            lock file on disk.  Inside one process: the coordinator      *)
(*            (Database's own goroutine), the process-run goroutine, the   *)
(*            stdout-reader goroutine, the migration-engine child and the  *)
(*            bounded context's timer.                                     *)
(* ServeSpec  one `wunderbase serve` process: runServe's main flow, the    *)
(*            HTTP goroutine, queryengine.Run's watcher goroutine, the     *)
(*            context watcher exec.CommandContext starts, the query-engine *)
(*            child and the shutdown signals.                              *)
(***************************************************************************)
EXTENDS Integers, Sequences, FiniteSets, TLC

(* ------------------------------------------------------------------ *)
(* Bounds                                                              *)
(* ------------------------------------------------------------------ *)

\* number of `wunderbase migrate` invocations in one behaviour
MaxCalls == 2

\* longest schema text, in bytes
MaxSchemaLen == 2

\* most bytes a failing write of the lock file gets to disk
MaxPartial == 1

\* lines the query engine writes to each of its output streams
MaxLines == 1

\* capacity of an OS pipe buffer, scaled down so that a request line can
\* exceed it (65536 on Linux)
PipeBuf == 85

(* ------------------------------------------------------------------ *)
(* Data                                                                *)
(* ------------------------------------------------------------------ *)

\* the byte schema texts are made of: '"', which json.Marshal escapes
SchemaBytes == {34}

RECURSIVE SeqsUpTo(_, _)
SeqsUpTo(S, n) ==
    IF n = 0 THEN {<<>>}
    ELSE LET shorter == SeqsUpTo(S, n - 1)
         IN  shorter \cup {Append(s, b) : s \in shorter, b \in S}

Schemas == SeqsUpTo(SchemaBytes, MaxSchemaLen)

\* sha256.New() followed by h.Sum(nil): the digest of no input at all
Sha256Empty ==
    << 227, 176, 196, 66, 152, 252, 28, 20, 154, 251, 244, 200, 153, 111,
       185, 36, 39, 174, 65, 228, 100, 155, 147, 76, 164, 149, 153, 27,
       120, 82, 184, 85 >>

\* h := sha256.New(); expected := h.Sum([]byte(schema)).  Nothing was written
\* to h, and Sum(b) appends the current digest to b.
Expected(s) == s \o Sha256Empty

\* the lock file: absent, or a byte string
NoFile == [exists |-> FALSE, data |-> <<>>]
File(d) == [exists |-> TRUE, data |-> d]

\* bytes.Equal(lock, expected)
BytesEqual(a, b) == a = b

\* length of json.Marshal(req) plus the appended newline, for the empty schema
EnvelopeLen == 83

\* bytes json.Marshal writes for one byte of a string
EscapedLen(b) == IF b = 34 \/ b = 92 THEN 2 ELSE 1

RECURSIVE EscapedSeqLen(_)
EscapedSeqLen(s) ==
    IF s = <<>> THEN 0 ELSE EscapedLen(Head(s)) + EscapedSeqLen(Tail(s))

\* MigrationRequest{Id: 1, Jsonrpc: "2.0", Method: "schemaPush",
\*                  Params: {Force: true, Schema: schema}}
MigrationRequest(s) ==
    [id |-> 1, jsonrpc |-> "2.0", method |-> "schemaPush", force |-> TRUE,
     schema |-> s]

NoRequest ==
    [id |-> 0, jsonrpc |-> "", method |-> "", force |-> FALSE, schema |-> <<>>]

RequestLen(s) == EnvelopeLen + EscapedSeqLen(s)

\* error values; nil is NoErr
NoErr == [kind |-> "nil", body |-> ""]
Err(k) == [kind |-> k, body |-> ""]
ErrBody(k, b) == [kind |-> k, body |-> b]

\* what the engine may put on one line of its standard output
EngineMessages == {"P1012"}
Replies ==
    {[kind |-> "result", msg |-> ""], [kind |-> "garbage", msg |-> ""]}
        \cup {[kind |-> "error", msg |-> m] : m \in EngineMessages}

BodyTok(r) == [t |-> "body", kind |-> r.kind, msg |-> r.msg]
NewlineTok == [t |-> "nl", kind |-> "", msg |-> ""]

\* MigrationResponse after json.Unmarshal; Error == nil is err = FALSE
NoResp == [set |-> FALSE, err |-> FALSE, msg |-> ""]

\* json.Unmarshal(outBuf.Bytes(), &resp): the bytes before the newline must be
\* one JSON value
UnmarshalOk(buf) ==
    /\ Len(buf) = 2
    /\ buf[1].t = "body"
    /\ buf[1].kind \in {"result", "error"}

Unmarshal(buf) ==
    IF UnmarshalOk(buf)
    THEN [set |-> TRUE, err |-> buf[1].kind = "error", msg |-> buf[1].msg]
    ELSE NoResp

\* json.MarshalIndent(resp, "", "  "): the error body carries the message
MarshalIndent(r) == r.msg

(* ------------------------------------------------------------------ *)
(* State                                                               *)
(* ------------------------------------------------------------------ *)

VARIABLES
    lock,        \* the lock file on disk
    calls,       \* invocations of `wunderbase migrate` started so far
    prev,        \* summary of the previous invocation
    alive,       \* a `wunderbase migrate` process is running
    exit,        \* exit status of the last process (-1: none yet)
    schema,      \* schema text of the current invocation
    pc,          \* coordinator: position in main/runMigrate/Database
    ret,         \* value Database returns (set at its return statement)
    panicking,   \* the coordinator is unwinding a panic
    got,         \* value received from errs at line 142
    rpc,         \* process-run goroutine (lines 105-111)
    runErr,      \* what cmd.Run returned
    dpc,         \* stdout-reader goroutine (lines 114-139)
    readErr,     \* error the reader is about to send
    errsBuf,     \* the buffered channel errs (capacity 1)
    errsClosed,  \* errs has been closed
    closes,      \* close(errs) calls executed, panicking ones included
    ctxErr,      \* ctx.Err() of the bounded context
    child,       \* the migration-engine process
    eout,        \* tokens the engine has written to its stdout
    outPipe,     \* the stdout pipe's kernel buffer
    outRdClosed, \* the parent closed its read end of the stdout pipe
    rbuf,        \* bufio.Reader's buffer
    outBuf,      \* outBuf of the reader
    inPipe,      \* request sitting in (or read from) the stdin pipe
    inState,     \* stdin pipe: "none", "open", "closed"
    resp,        \* the shared variable resp
    spawned,     \* times the migration engine was started in this invocation
    skipped,     \* this invocation took the "already executed" return
    lockBefore,  \* lock file content when Database was entered
    wrote,       \* ioutil.WriteFile of the lock file returned nil
    panicBy,     \* which statement paniced, "" if none
    \* ---- `wunderbase serve`
    sAlive,      \* the serve process is running
    spc,         \* runServe's main flow (queryengine.Run runs inside it)
    serr,        \* runServe's named result err, shared with the HTTP goroutine
    sret,        \* the value runServe returned
    sexit,       \* exit status of the serve process (-1: none yet)
    sctx,        \* the context of signal.NotifyContext
    wg,          \* counter of the shared sync.WaitGroup
    doneMain,    \* wg.Done() calls of runServe's main flow
    doneWatcher, \* wg.Done() calls of the watcher goroutine
    qe,          \* the query-engine child
    kills,       \* kill signals sent to the query-engine child
    wpc,         \* the watcher goroutine of queryengine.Run (lines 65-75)
    xpc,         \* the context watcher started by exec.Cmd.Start
    hpc,         \* the HTTP goroutine of runServe (lines 145-150)
    srvClosed,   \* result of srv.Close(): "no" (not called), "nil", "error"
    qpipe,       \* per stream: the parent's read end of the child's pipe
    fpc,         \* per stream: the forwarding goroutine (lines 40-45, 53-58)
    pending,     \* per stream: lines written and not yet read
    written,     \* per stream: lines the query engine has written
    forwarded,   \* per stream: lines handed to the logger
    slog,        \* messages queryengine.Run itself has logged
    flags,       \* config.Production and config.Debug of the serve process
    qargs        \* the argument list the query engine was started with

persistVars == <<lock, calls, prev, alive, exit>>
coordVars ==
    <<schema, pc, ret, panicking, got, skipped, lockBefore, wrote>>
runnerVars == <<rpc, runErr>>
readerVars == <<dpc, readErr, rbuf, outBuf, resp>>
chanVars == <<errsBuf, errsClosed, closes>>
engineVars == <<child, eout, outPipe, outRdClosed, inPipe, inState, spawned>>

migrateVars ==
    <<persistVars, coordVars, runnerVars, readerVars, chanVars, engineVars,
      ctxErr, panicBy>>

streamVars == <<qpipe, fpc, pending, written, forwarded>>

serveVars ==
    <<sAlive, spc, serr, sret, sexit, sctx, wg, doneMain, doneWatcher, qe,
      kills, wpc, xpc, hpc, srvClosed, streamVars, slog, flags, qargs>>

vars == <<migrateVars, serveVars>>

NoPrev ==
    [valid |-> FALSE, schema |-> <<>>, resp |-> NoResp, wrote |-> FALSE,
     spawned |-> 0, exit |-> -1]

\* lock files an operator or an image build may have put in place
SeedLocks ==
    {NoFile, File(<<>>)} \cup {File(Expected(s)) : s \in Schemas}

\* everything one process owns, before main runs
FreshProcess ==
    /\ pc = "off"
    /\ ret = Err("none")
    /\ panicking = FALSE
    /\ got = Err("none")
    /\ rpc = "none"
    /\ runErr = Err("none")
    /\ dpc = "none"
    /\ readErr = Err("none")
    /\ errsBuf = <<>>
    /\ errsClosed = FALSE
    /\ closes = 0
    /\ ctxErr = "unset"
    /\ child = "none"
    /\ eout = 0
    /\ outPipe = <<>>
    /\ outRdClosed = FALSE
    /\ rbuf = <<>>
    /\ outBuf = <<>>
    /\ inPipe = NoRequest
    /\ inState = "none"
    /\ resp = NoResp
    /\ spawned = 0
    /\ skipped = FALSE
    /\ wrote = FALSE
    /\ panicBy = ""

\* config.PrismaSchemaFilePath and config.QueryEnginePort (envDefault)
SchemaFilePath == "./schema.prisma"
QueryEnginePort == "4467"

\* the settings of PRODUCTION and DEBUG
Flags == [production : BOOLEAN, debug : BOOLEAN]

\* a variant of lines 24-31 that passes the playground arguments whatever
\* the production flag says
ArgsPlaygroundAlways(path, port, production, debug) ==
    <<"--datamodel-path", path, "--enable-playground", "--port", port>>
        \o (IF debug THEN <<"--debug", "--log-queries">> ELSE <<>>)

\* queryengine.Run lines 24-31: the argument list, built by appending
Args(path, port, production, debug) ==
    LET base == <<"--datamodel-path", path>>
        play == IF ~production
                THEN base \o <<"--enable-playground", "--port", port>>
                ELSE base
    IN  IF debug THEN play \o <<"--debug", "--log-queries">> ELSE play

\* the output streams of the query engine
Streams == {"stdout", "stderr"}

\* no `wunderbase serve` process
ServeIdle ==
    /\ sAlive = FALSE
    /\ spc = "off"
    /\ serr = NoErr
    /\ sret = Err("none")
    /\ sexit = -1
    /\ sctx = "none"
    /\ wg = 0
    /\ doneMain = 0
    /\ doneWatcher = 0
    /\ qe = "none"
    /\ kills = 0
    /\ wpc = "none"
    /\ xpc = "none"
    /\ hpc = "none"
    /\ srvClosed = "no"
    /\ qpipe = [s \in Streams |-> "none"]
    /\ fpc = [s \in Streams |-> "none"]
    /\ pending = [s \in Streams |-> 0]
    /\ written = [s \in Streams |-> 0]
    /\ forwarded = [s \in Streams |-> 0]
    /\ slog = {}
    /\ flags = [production |-> FALSE, debug |-> FALSE]
    /\ qargs = <<>>

Init ==
    /\ ServeIdle
    /\ lock \in SeedLocks
    /\ calls = 0
    /\ prev = NoPrev
    /\ alive = FALSE
    /\ exit = -1
    /\ schema = <<>>
    /\ lockBefore = NoFile
    /\ FreshProcess

(* ------------------------------------------------------------------ *)
(* The process: start, exit, crash                                     *)
(* ------------------------------------------------------------------ *)

Summary(code) ==
    [valid |-> TRUE, schema |-> schema, resp |-> resp, wrote |-> wrote,
     spawned |-> spawned, exit |-> code]

\* the process ends with status `code`; every goroutine ends with it
ProcessEnds(code, stmt) ==
    /\ alive' = FALSE
    /\ exit' = code
    /\ panicBy' = stmt
    /\ prev' = Summary(code)
    /\ UNCHANGED <<lock, calls>>

\* an unrecovered panic in a goroutine ends the process with status 2
Crash(stmt) == ProcessEnds(2, stmt)

\* `wunderbase migrate` is executed (litefs.yml exec, or an operator); the
\* schema file holds text s
StartProcess(s) ==
    /\ ~alive
    /\ calls < MaxCalls
    /\ alive' = TRUE
    /\ calls' = calls + 1
    /\ exit' = -1
    /\ schema' = s
    /\ lockBefore' = lock
    /\ pc' = "readSchema"
    /\ ret' = Err("none")
    /\ panicking' = FALSE
    /\ got' = Err("none")
    /\ rpc' = "none"
    /\ runErr' = Err("none")
    /\ dpc' = "none"
    /\ readErr' = Err("none")
    /\ errsBuf' = <<>>
    /\ errsClosed' = FALSE
    /\ closes' = 0
    /\ ctxErr' = "unset"
    /\ child' = "none"
    /\ eout' = 0
    /\ outPipe' = <<>>
    /\ outRdClosed' = FALSE
    /\ rbuf' = <<>>
    /\ outBuf' = <<>>
    /\ inPipe' = NoRequest
    /\ inState' = "none"
    /\ resp' = NoResp
    /\ spawned' = 0
    /\ skipped' = FALSE
    /\ wrote' = FALSE
    /\ panicBy' = ""
    /\ UNCHANGED <<lock, prev>>
    /\ UNCHANGED serveVars

(* ------------------------------------------------------------------ *)
(* main / Run / runMigrate                                             *)
(* ------------------------------------------------------------------ *)

\* runMigrate: ioutil.ReadFile(config.PrismaSchemaFilePath) fails
RunMigrateSchemaUnreadable ==
    /\ alive /\ pc = "readSchema"
    /\ ProcessEnds(1, panicBy)
    /\ UNCHANGED <<coordVars, runnerVars, readerVars, chanVars, engineVars,
                   ctxErr>>
    /\ UNCHANGED serveVars

RunMigrateCallsDatabase ==
    /\ alive /\ pc = "readSchema"
    /\ pc' = "gate"
    /\ UNCHANGED <<persistVars, schema, ret, panicking, got, skipped,
                   lockBefore, wrote, runnerVars, readerVars, chanVars,
                   engineVars, ctxErr, panicBy>>
    /\ UNCHANGED serveVars

\* what runMigrate returns once migrate.Database has returned dbErr
RunMigrateResult(dbErr) == NoErr

\* main: the exit status for the error Run returned (flag.ErrHelp does not
\* arise from the migrate subcommand)
MainExitCode(err) == IF err = NoErr THEN 0 ELSE 1

\* Database has returned: runMigrate returns, Run returns, main ends
MainExit ==
    /\ alive /\ pc = "returned"
    /\ ProcessEnds(MainExitCode(RunMigrateResult(ret)), panicBy)
    /\ UNCHANGED <<coordVars, runnerVars, readerVars, chanVars, engineVars,
                   ctxErr>>
    /\ UNCHANGED serveVars

(* ------------------------------------------------------------------ *)
(* migrate.Database: the coordinator                                   *)
(* ------------------------------------------------------------------ *)

othersOfCoord == <<runnerVars, readerVars, chanVars, panicBy>>

\* a variant of lines 57-60 that takes a lock file it cannot read for a
\* lock file of another schema and goes on to the attempt
DatabaseLockUnreadableTolerated ==
    /\ alive /\ pc = "gate"
    /\ ~lock.exists
    /\ ctxErr' = "none"
    /\ pc' = "stdinPipe"
    /\ UNCHANGED <<persistVars, schema, ret, panicking, got, skipped,
                   lockBefore, wrote, othersOfCoord, engineVars>>
    /\ UNCHANGED serveVars

\* lines 57-60: the lock file cannot be read
DatabaseLockUnreadable ==
    /\ alive /\ pc = "gate"
    /\ ~lock.exists
    /\ ret' = Err("read lock file")
    /\ pc' = "returned"
    /\ UNCHANGED <<persistVars, schema, panicking, got, skipped, lockBefore,
                   wrote, othersOfCoord, engineVars, ctxErr>>
    /\ UNCHANGED serveVars

\* lines 61-64: the lock file holds `expected`
DatabaseSkips ==
    /\ alive /\ pc = "gate"
    /\ lock.exists
    /\ BytesEqual(lock.data, Expected(schema))
    /\ ret' = NoErr
    /\ skipped' = TRUE
    /\ pc' = "returned"
    /\ UNCHANGED <<persistVars, schema, panicking, got, lockBefore, wrote,
                   othersOfCoord, engineVars, ctxErr>>
    /\ UNCHANGED serveVars

\* lines 61, 66-68: the gate is passed; the bounded context starts
DatabaseProceeds ==
    /\ alive /\ pc = "gate"
    /\ lock.exists
    /\ ~BytesEqual(lock.data, Expected(schema))
    /\ ctxErr' = "none"
    /\ pc' = "stdinPipe"
    /\ UNCHANGED <<persistVars, schema, ret, panicking, got, skipped,
                   lockBefore, wrote, othersOfCoord, engineVars>>
    /\ UNCHANGED serveVars

\* lines 69-73
StdinPipe(ok) ==
    /\ alive /\ pc = "stdinPipe"
    /\ IF ok
       THEN /\ inState' = "open"
            /\ pc' = "write"
            /\ ret' = ret
       ELSE /\ inState' = inState
            /\ pc' = "deferRest"
            /\ ret' = Err("migration engine std in pipe")
    /\ UNCHANGED <<persistVars, schema, panicking, got, skipped, lockBefore,
                   wrote, othersOfCoord, child, eout, outPipe, outRdClosed,
                   inPipe, spawned, ctxErr>>
    /\ UNCHANGED serveVars

\* lines 75-93: the request line goes into the stdin pipe, which nothing
\* reads yet: in.Write returns only if the line fits the pipe buffer.
\* json.Marshal cannot fail on this struct.
WriteRequest(ok) ==
    /\ alive /\ pc = "write"
    /\ IF ok
       THEN /\ RequestLen(schema) <= PipeBuf
            /\ inPipe' = MigrationRequest(schema)
            /\ pc' = "stdoutPipe"
            /\ ret' = ret
       ELSE /\ inPipe' = inPipe
            /\ pc' = "deferRest"
            /\ ret' = Err("write data to stdin")
    /\ UNCHANGED <<persistVars, schema, panicking, got, skipped, lockBefore,
                   wrote, othersOfCoord, child, eout, outPipe, outRdClosed,
                   inState, spawned, ctxErr>>
    /\ UNCHANGED serveVars

\* lines 95-98
StdoutPipe(ok) ==
    /\ alive /\ pc = "stdoutPipe"
    /\ IF ok
       THEN /\ pc' = "go"
            /\ ret' = ret
       ELSE /\ pc' = "deferRest"
            /\ ret' = Err("migration std out pipe")
    /\ UNCHANGED <<persistVars, schema, panicking, got, skipped, lockBefore,
                   wrote, othersOfCoord, engineVars, ctxErr>>
    /\ UNCHANGED serveVars

\* lines 100-139: the channels are made, close(errs) is deferred, both
\* goroutines are started
StartGoroutines ==
    /\ alive /\ pc = "go"
    /\ rpc' = "run"
    /\ dpc' = "read"
    /\ pc' = "recv"
    /\ UNCHANGED <<persistVars, schema, ret, panicking, got, skipped,
                   lockBefore, wrote, runErr, readErr, rbuf, outBuf, resp,
                   chanVars, panicBy, engineVars, ctxErr>>
    /\ UNCHANGED serveVars

\* line 142: err := <-errs.  A closed, empty channel yields nil.
Receive ==
    /\ alive /\ pc = "recv"
    /\ \/ /\ errsBuf # <<>>
          /\ got' = Head(errsBuf)
          /\ errsBuf' = Tail(errsBuf)
       \/ /\ errsBuf = <<>>
          /\ errsClosed
          /\ got' = NoErr
          /\ errsBuf' = errsBuf
    /\ IF got' # NoErr
       THEN /\ ret' = got'
            /\ pc' = "deferClose"
       ELSE /\ ret' = ret
            /\ pc' = "persist"
    /\ UNCHANGED <<persistVars, schema, panicking, skipped, lockBefore,
                   wrote, runnerVars, readerVars, errsClosed, closes, panicBy,
                   engineVars, ctxErr>>
    /\ UNCHANGED serveVars

\* what a write that fails part-way leaves of d: a proper prefix
Prefixes(d) ==
    {SubSeq(d, 1, n) : n \in 0..(IF Len(d) - 1 < MaxPartial
                                 THEN Len(d) - 1 ELSE MaxPartial)}

\* ioutil.WriteFile(name, data, 0644): open with O_TRUNC, write, close.
\* The outcomes: [file, ok].
WriteFile(old, data) ==
    {[file |-> File(data), ok |-> TRUE]}            \* all three succeed
        \cup {[file |-> old, ok |-> FALSE]}         \* the open fails
        \cup {[file |-> File(p), ok |-> FALSE] : p \in Prefixes(data)}
                                                    \* the write fails
        \cup {[file |-> File(data), ok |-> FALSE]}  \* the close fails

\* lines 146-164: the value returned once the lock file write is over
PersistResult(r, ok) ==
    IF ~ok THEN Err("migration write lock file")
    ELSE IF ~r.err THEN NoErr
    ELSE ErrBody("migration failed", MarshalIndent(r))

\* lines 146-164
Persist ==
    /\ alive /\ pc = "persist"
    /\ \E w \in WriteFile(lock, Expected(schema)) :
          /\ lock' = w.file
          /\ wrote' = w.ok
          /\ ret' = PersistResult(resp, w.ok)
    /\ pc' = "deferClose"
    /\ UNCHANGED <<calls, prev, alive, exit, schema, panicking, got, skipped,
                   lockBefore, othersOfCoord, engineVars, ctxErr>>
    /\ UNCHANGED serveVars

\* line 103, run at return: close(errs)
DeferredCloseErrs ==
    /\ alive /\ pc = "deferClose"
    /\ closes' = closes + 1
    /\ IF errsClosed
       THEN /\ panicking' = TRUE
            /\ panicBy' = "coordinator: close of closed channel"
            /\ errsClosed' = errsClosed
       ELSE /\ panicking' = panicking
            /\ panicBy' = panicBy
            /\ errsClosed' = TRUE
    /\ pc' = "deferRest"
    /\ UNCHANGED <<persistVars, schema, ret, got, skipped, lockBefore,
                   wrote, runnerVars, readerVars, errsBuf, engineVars, ctxErr>>
    /\ UNCHANGED serveVars

\* context.CancelFunc
Cancel(e) == IF e = "none" THEN "canceled" ELSE e

\* lines 73 and 67, run at return or while panicking: in.Close(), cancel().
\* A panicking coordinator then ends the process.
DeferredRest ==
    /\ alive /\ pc = "deferRest"
    /\ IF panicking
       THEN /\ ProcessEnds(2, panicBy)
            /\ UNCHANGED <<pc, inState, ctxErr>>
       ELSE /\ pc' = "returned"
            /\ inState' = IF inState = "open" THEN "closed" ELSE inState
            /\ ctxErr' = Cancel(ctxErr)
            /\ UNCHANGED <<persistVars, panicBy>>
    /\ UNCHANGED <<schema, ret, panicking, got, skipped, lockBefore, wrote,
                   runnerVars, readerVars, chanVars, child, eout, outPipe,
                   outRdClosed, inPipe, spawned>>
    /\ UNCHANGED serveVars

(* ------------------------------------------------------------------ *)
(* migrate.Database: the process-run goroutine (lines 105-111)         *)
(* ------------------------------------------------------------------ *)

othersOfRunner ==
    <<persistVars, coordVars, readerVars, panicBy>>

\* cmd.Run: Start fails (also what Start does once ctx is done); exec
\* closes every pipe end the parent holds
RunStartFails ==
    /\ alive /\ rpc = "run"
    /\ runErr' = Err("start")
    /\ outRdClosed' = TRUE
    /\ inState' = IF inState = "open" THEN "closed" ELSE inState
    /\ rpc' = "check"
    /\ UNCHANGED <<othersOfRunner, chanVars, child, eout, outPipe, inPipe,
                   spawned, ctxErr>>
    /\ UNCHANGED serveVars

\* cmd.Run: Start succeeds, the engine runs
RunStarts ==
    /\ alive /\ rpc = "run"
    /\ child' = "running"
    /\ spawned' = spawned + 1
    /\ rpc' = "wait"
    /\ UNCHANGED <<othersOfRunner, chanVars, runErr, eout, outPipe,
                   outRdClosed, inPipe, inState, ctxErr>>
    /\ UNCHANGED serveVars

\* the error cmd.Wait reports for an ended child
WaitErr(c) ==
    IF c = "exit0" THEN NoErr
    ELSE IF c = "killed" THEN Err("signal: killed")
    ELSE Err("exit status 1")

\* cmd.Run: Wait returns once the child has ended, and closes the parent's
\* ends of the pipes
RunWaitReturns ==
    /\ alive /\ rpc = "wait"
    /\ child \in {"exit0", "exit1", "killed"}
    /\ runErr' = WaitErr(child)
    /\ outRdClosed' = TRUE
    /\ inState' = IF inState = "open" THEN "closed" ELSE inState
    /\ rpc' = "check"
    /\ UNCHANGED <<othersOfRunner, chanVars, child, eout, outPipe, inPipe,
                   spawned, ctxErr>>
    /\ UNCHANGED serveVars

\* line 108: err != nil && ctx.Err() == nil
RunErrorReported(err, e) == err # NoErr /\ e \in {"unset", "none"}

RunCheck ==
    /\ alive /\ rpc = "check"
    /\ rpc' = IF RunErrorReported(runErr, ctxErr) THEN "send" ELSE "done"
    /\ UNCHANGED <<othersOfRunner, chanVars, runErr, engineVars, ctxErr>>
    /\ UNCHANGED serveVars

\* line 109: errs <- fmt.Errorf("migration engine run: %v", err)
RunSend ==
    /\ alive /\ rpc = "send"
    /\ IF errsClosed
       THEN /\ Crash("run goroutine: send on closed channel")
            /\ UNCHANGED <<coordVars, readerVars, chanVars, rpc>>
       ELSE /\ Len(errsBuf) < 1
            /\ errsBuf' = Append(errsBuf, Err("migration engine run"))
            /\ rpc' = "done"
            /\ UNCHANGED <<othersOfRunner, errsClosed, closes>>
    /\ UNCHANGED <<runErr, engineVars, ctxErr>>
    /\ UNCHANGED serveVars

(* ------------------------------------------------------------------ *)
(* migrate.Database: the stdout-reader goroutine (lines 114-139)       *)
(* ------------------------------------------------------------------ *)

othersOfReader ==
    <<persistVars, coordVars, runnerVars, panicBy>>

\* r.ReadByte with an empty bufio buffer: one read of the pipe takes what is
\* there
ReaderFill ==
    /\ alive /\ dpc = "read"
    /\ rbuf = <<>> /\ outPipe # <<>> /\ ~outRdClosed
    /\ rbuf' = outPipe
    /\ outPipe' = <<>>
    /\ UNCHANGED <<othersOfReader, chanVars, dpc, readErr, outBuf, resp,
                   child, eout, outRdClosed, inPipe, inState, spawned, ctxErr>>
    /\ UNCHANGED serveVars

\* lines 119-129: one byte is taken and appended to outBuf
ReaderByte ==
    /\ alive /\ dpc = "read"
    /\ rbuf # <<>>
    /\ outBuf' = Append(outBuf, Head(rbuf))
    /\ rbuf' = Tail(rbuf)
    /\ dpc' = IF Head(rbuf).t = "nl" THEN "cancel" ELSE "read"
    /\ UNCHANGED <<othersOfReader, chanVars, readErr, resp, engineVars,
                   ctxErr>>
    /\ UNCHANGED serveVars

\* the pipe has nothing more to give: its read end was closed under the
\* reader, or it is drained and the child has ended
ReadFails ==
    /\ rbuf = <<>>
    /\ \/ outRdClosed
       \/ outPipe = <<>> /\ child \in {"exit0", "exit1", "killed"}

\* lines 119-123
ReaderReadError ==
    /\ alive /\ dpc = "read"
    /\ ReadFails
    /\ readErr' = Err("migration ReadByte")
    /\ dpc' = "send"
    /\ UNCHANGED <<othersOfReader, chanVars, rbuf, outBuf, resp, engineVars,
                   ctxErr>>
    /\ UNCHANGED serveVars

\* line 130
ReaderCancel ==
    /\ alive /\ dpc = "cancel"
    /\ ctxErr' = Cancel(ctxErr)
    /\ dpc' = "unmarshal"
    /\ UNCHANGED <<othersOfReader, chanVars, readErr, rbuf, outBuf, resp,
                   engineVars>>
    /\ UNCHANGED serveVars

\* lines 131-136
ReaderUnmarshal ==
    /\ alive /\ dpc = "unmarshal"
    /\ resp' = Unmarshal(outBuf)
    /\ IF UnmarshalOk(outBuf)
       THEN /\ dpc' = "close"
            /\ readErr' = readErr
       ELSE /\ dpc' = "send"
            /\ readErr' = Err("migration unmarshal response")
    /\ UNCHANGED <<othersOfReader, chanVars, rbuf, outBuf, engineVars, ctxErr>>
    /\ UNCHANGED serveVars

\* lines 121 and 133: errs <- err
ReaderSend ==
    /\ alive /\ dpc = "send"
    /\ IF errsClosed
       THEN /\ Crash("reader: send on closed channel")
            /\ UNCHANGED <<coordVars, runnerVars, chanVars, dpc>>
       ELSE /\ Len(errsBuf) < 1
            /\ errsBuf' = Append(errsBuf, readErr)
            /\ dpc' = "close"
            /\ UNCHANGED <<othersOfReader, errsClosed, closes>>
    /\ UNCHANGED <<readErr, rbuf, outBuf, resp, engineVars, ctxErr>>
    /\ UNCHANGED serveVars

\* line 115, run when the reader returns: close(errs)
ReaderDeferredClose ==
    /\ alive /\ dpc = "close"
    /\ closes' = closes + 1
    /\ IF errsClosed
       THEN /\ Crash("reader: close of closed channel")
            /\ UNCHANGED <<coordVars, runnerVars, errsClosed, dpc>>
       ELSE /\ errsClosed' = TRUE
            /\ dpc' = "done"
            /\ UNCHANGED othersOfReader
    /\ UNCHANGED <<errsBuf, readErr, rbuf, outBuf, resp, engineVars, ctxErr>>
    /\ UNCHANGED serveVars

(* ------------------------------------------------------------------ *)
(* The migration engine and the bounded context                        *)
(* ------------------------------------------------------------------ *)

othersOfEngine ==
    <<persistVars, coordVars, runnerVars, readerVars, chanVars, panicBy>>

\* the engine writes the text of a reply, without the newline
EngineWritesBody(r) ==
    /\ alive /\ child = "running"
    /\ eout = 0
    /\ outPipe' = Append(outPipe, BodyTok(r))
    /\ eout' = 1
    /\ UNCHANGED <<othersOfEngine, child, outRdClosed, inPipe, inState,
                   spawned, ctxErr>>
    /\ UNCHANGED serveVars

\* the engine ends the line
EngineWritesNewline ==
    /\ alive /\ child = "running"
    /\ eout < 2
    /\ outPipe' = Append(outPipe, NewlineTok)
    /\ eout' = 2
    /\ UNCHANGED <<othersOfEngine, child, outRdClosed, inPipe, inState,
                   spawned, ctxErr>>
    /\ UNCHANGED serveVars

\* the engine ends on its own
EngineExits(status) ==
    /\ alive /\ child = "running"
    /\ child' = status
    /\ UNCHANGED <<othersOfEngine, eout, outPipe, outRdClosed, inPipe,
                   inState, spawned, ctxErr>>
    /\ UNCHANGED serveVars

\* line 66: the 5 seconds of context.WithTimeout pass
Timeout ==
    /\ alive /\ ctxErr = "none"
    /\ ctxErr' = "deadline"
    /\ UNCHANGED <<othersOfEngine, engineVars>>
    /\ UNCHANGED serveVars

\* line 68: exec.CommandContext kills the child once ctx is done
ContextKill ==
    /\ alive /\ child = "running"
    /\ ctxErr \in {"canceled", "deadline"}
    /\ child' = "killed"
    /\ UNCHANGED <<othersOfEngine, eout, outPipe, outRdClosed, inPipe,
                   inState, spawned, ctxErr>>
    /\ UNCHANGED serveVars

(* ------------------------------------------------------------------ *)
(* Specification of the migrate subcommand                             *)
(* ------------------------------------------------------------------ *)

Next ==
    \/ \E s \in Schemas : StartProcess(s)
    \/ RunMigrateSchemaUnreadable
    \/ RunMigrateCallsDatabase
    \/ MainExit
    \/ DatabaseLockUnreadable
    \/ DatabaseSkips
    \/ DatabaseProceeds
    \/ \E ok \in BOOLEAN : StdinPipe(ok)
    \/ \E ok \in BOOLEAN : WriteRequest(ok)
    \/ \E ok \in BOOLEAN : StdoutPipe(ok)
    \/ StartGoroutines
    \/ Receive
    \/ Persist
    \/ DeferredCloseErrs
    \/ DeferredRest
    \/ RunStartFails
    \/ RunStarts
    \/ RunWaitReturns
    \/ RunCheck
    \/ RunSend
    \/ ReaderFill
    \/ ReaderByte
    \/ ReaderReadError
    \/ ReaderCancel
    \/ ReaderUnmarshal
    \/ ReaderSend
    \/ ReaderDeferredClose
    \/ \E r \in Replies : EngineWritesBody(r)
    \/ EngineWritesNewline
    \/ \E status \in {"exit0", "exit1"} : EngineExits(status)
    \/ Timeout
    \/ ContextKill

Spec == Init /\ [][Next]_vars

(* ------------------------------------------------------------------ *)
(* `wunderbase serve`: runServe and queryengine.Run                    *)
(* ------------------------------------------------------------------ *)

\* no `wunderbase migrate` process has run
MigrateIdle ==
    /\ lock = NoFile
    /\ calls = 0
    /\ prev = NoPrev
    /\ alive = FALSE
    /\ exit = -1
    /\ schema = <<>>
    /\ lockBefore = NoFile
    /\ FreshProcess

ServeInit == MigrateIdle /\ ServeIdle

mainFlow == <<spc, serr, sret>>
tasks == <<wpc, xpc, hpc>>

\* `wunderbase serve` is executed: main, Run, runServe
ServeStart ==
    /\ ~sAlive /\ spc = "off"
    /\ sAlive' = TRUE
    /\ spc' = "notify"
    /\ flags' \in Flags
    /\ UNCHANGED <<serr, sret, sexit, sctx, wg, doneMain, doneWatcher, qe,
                   kills, tasks, srvClosed, migrateVars>>
    /\ UNCHANGED <<streamVars, slog>>
    /\ UNCHANGED qargs

\* runServe lines 112-116: signal.NotifyContext, wg.Add(2)
RunServeInit ==
    /\ sAlive /\ spc = "notify"
    /\ sctx' = "live"
    /\ wg' = wg + 2
    /\ spc' = "qStdoutPipe"
    /\ UNCHANGED <<sAlive, serr, sret, sexit, doneMain, doneWatcher, qe,
                   kills, tasks, srvClosed, migrateVars>>
    /\ UNCHANGED <<streamVars, slog>>
    /\ UNCHANGED <<flags, qargs>>

\* queryengine.Run lines 24-45: cmd.StdoutPipe()
QStdoutPipe(ok) ==
    /\ sAlive /\ spc = "qStdoutPipe"
    /\ IF ok
       THEN /\ spc' = "qStderrPipe"
            /\ serr' = serr
            /\ qpipe' = [qpipe EXCEPT !["stdout"] = "open"]
            /\ fpc' = [fpc EXCEPT !["stdout"] = "scan"]
       ELSE /\ spc' = "runFailed"
            /\ serr' = Err("error creating StdoutPipe for Cmd")
            /\ UNCHANGED <<qpipe, fpc>>
    /\ UNCHANGED <<sAlive, sret, sexit, sctx, wg, doneMain, doneWatcher, qe,
                   kills, tasks, srvClosed, migrateVars>>
    /\ UNCHANGED <<pending, written, forwarded, slog>>
    /\ UNCHANGED <<flags, qargs>>

\* the deferred stdout.Close() and stderr.Close() of lines 38 and 51, run
\* when Run returns: the parent's read ends are closed
CloseAll(q) == [s \in Streams |-> IF q[s] = "open" THEN "closed" ELSE q[s]]

\* queryengine.Run lines 47-58: cmd.StderrPipe()
QStderrPipe(ok) ==
    /\ sAlive /\ spc = "qStderrPipe"
    /\ IF ok
       THEN /\ spc' = "qStart"
            /\ serr' = serr
            /\ qpipe' = [qpipe EXCEPT !["stderr"] = "open"]
            /\ fpc' = [fpc EXCEPT !["stderr"] = "scan"]
       ELSE /\ spc' = "runFailed"
            /\ serr' = Err("error creating StderrPipe for Cmd")
            /\ qpipe' = CloseAll(qpipe)
            /\ fpc' = fpc
    /\ UNCHANGED <<sAlive, sret, sexit, sctx, wg, doneMain, doneWatcher, qe,
                   kills, tasks, srvClosed, migrateVars>>
    /\ UNCHANGED <<pending, written, forwarded, slog>>
    /\ UNCHANGED <<flags, qargs>>

\* queryengine.Run lines 60-63: cmd.Start().  A started command of
\* exec.CommandContext (line 33) has a goroutine watching ctx.
QStart(ok) ==
    /\ sAlive /\ spc = "qStart"
    /\ IF ok
       THEN /\ qe' = "running"
            /\ xpc' = "wait"
            /\ spc' = "qWatcher"
            /\ serr' = serr
            /\ qpipe' = qpipe
            /\ qargs' = Args(SchemaFilePath, QueryEnginePort,
                             flags.production, flags.debug)
       ELSE /\ qe' = qe
            /\ xpc' = xpc
            /\ spc' = "runFailed"
            /\ serr' = Err("error starting Cmd")
            /\ qpipe' = CloseAll(qpipe)
            /\ qargs' = qargs
    /\ UNCHANGED <<sAlive, sret, sexit, sctx, wg, doneMain, doneWatcher,
                   kills, wpc, hpc, srvClosed, migrateVars>>
    /\ UNCHANGED <<fpc, pending, written, forwarded, slog>>
    /\ UNCHANGED flags

\* queryengine.Run lines 65-76: the watcher goroutine is started, Run
\* returns nil
QStartWatcher ==
    /\ sAlive /\ spc = "qWatcher"
    /\ wpc' = "wait"
    /\ spc' = "serve"
    /\ qpipe' = CloseAll(qpipe)
    /\ UNCHANGED <<sAlive, serr, sret, sexit, sctx, wg, doneMain, doneWatcher,
                   qe, kills, xpc, hpc, srvClosed, migrateVars>>
    /\ UNCHANGED <<fpc, pending, written, forwarded, slog>>
    /\ UNCHANGED <<flags, qargs>>

\* runServe lines 125-127: Run returned an error
RunServeRunFailed ==
    /\ sAlive /\ spc = "runFailed"
    /\ serr' = Err("wunderbase: run query engine")
    /\ spc' = "return"
    /\ UNCHANGED <<sAlive, sret, sexit, sctx, wg, doneMain, doneWatcher, qe,
                   kills, tasks, srvClosed, migrateVars>>
    /\ UNCHANGED <<streamVars, slog>>
    /\ UNCHANGED <<flags, qargs>>

\* runServe lines 129-150: the handler and the server are built, the HTTP
\* goroutine is started
RunServeServe ==
    /\ sAlive /\ spc = "serve"
    /\ hpc' = "serve"
    /\ spc' = "waitCtx"
    /\ UNCHANGED <<sAlive, serr, sret, sexit, sctx, wg, doneMain, doneWatcher,
                   qe, kills, wpc, xpc, srvClosed, migrateVars>>
    /\ UNCHANGED <<streamVars, slog>>
    /\ UNCHANGED <<flags, qargs>>

\* runServe line 151: <-ctx.Done()
RunServeCtxDone ==
    /\ sAlive /\ spc = "waitCtx"
    /\ sctx = "done"
    /\ spc' = "close"
    /\ UNCHANGED <<sAlive, serr, sret, sexit, sctx, wg, doneMain, doneWatcher,
                   qe, kills, tasks, srvClosed, migrateVars>>
    /\ UNCHANGED <<streamVars, slog>>
    /\ UNCHANGED <<flags, qargs>>

\* runServe line 152: err = srv.Close()
RunServeClose(ok) ==
    /\ sAlive /\ spc = "close"
    /\ srvClosed' = IF ok THEN "nil" ELSE "error"
    /\ serr' = IF ok THEN NoErr ELSE Err("close listener")
    /\ spc' = "check"
    /\ UNCHANGED <<sAlive, sret, sexit, sctx, wg, doneMain, doneWatcher, qe,
                   kills, tasks, migrateVars>>
    /\ UNCHANGED <<streamVars, slog>>
    /\ UNCHANGED <<flags, qargs>>

\* runServe lines 153-155: if err != nil { return fmt.Errorf("...: %w", err) }
RunServeCheck ==
    /\ sAlive /\ spc = "check"
    /\ IF serr # NoErr
       THEN /\ serr' = ErrBody("wunderbase: close server", serr.kind)
            /\ spc' = "return"
       ELSE /\ serr' = serr
            /\ spc' = "wgDone"
    /\ UNCHANGED <<sAlive, sret, sexit, sctx, wg, doneMain, doneWatcher, qe,
                   kills, tasks, srvClosed, migrateVars>>
    /\ UNCHANGED <<streamVars, slog>>
    /\ UNCHANGED <<flags, qargs>>

\* a goroutine of the serve process panics
ServeCrash ==
    /\ sAlive' = FALSE
    /\ sexit' = 2

\* runServe line 157: wg.Done()
RunServeDone ==
    /\ sAlive /\ spc = "wgDone"
    /\ doneMain' = doneMain + 1
    /\ wg' = wg - 1
    /\ IF wg' < 0
       THEN /\ ServeCrash
            /\ spc' = spc
       ELSE /\ spc' = "wgWait"
            /\ UNCHANGED <<sAlive, sexit>>
    /\ UNCHANGED <<serr, sret, sctx, doneWatcher, qe, kills, tasks, srvClosed,
                   migrateVars>>
    /\ UNCHANGED <<streamVars, slog>>
    /\ UNCHANGED <<flags, qargs>>

\* runServe line 158: wg.Wait()
RunServeWait ==
    /\ sAlive /\ spc = "wgWait"
    /\ wg = 0
    /\ spc' = "retNil"
    /\ UNCHANGED <<sAlive, serr, sret, sexit, sctx, wg, doneMain, doneWatcher,
                   qe, kills, tasks, srvClosed, migrateVars>>
    /\ UNCHANGED <<streamVars, slog>>
    /\ UNCHANGED <<flags, qargs>>

\* runServe line 160: return nil assigns the named result
RunServeReturnNil ==
    /\ sAlive /\ spc = "retNil"
    /\ serr' = NoErr
    /\ spc' = "return"
    /\ UNCHANGED <<sAlive, sret, sexit, sctx, wg, doneMain, doneWatcher, qe,
                   kills, tasks, srvClosed, migrateVars>>
    /\ UNCHANGED <<streamVars, slog>>
    /\ UNCHANGED <<flags, qargs>>

\* runServe line 113, run at return: stop(); the named result goes to the
\* caller
RunServeReturn ==
    /\ sAlive /\ spc = "return"
    /\ sctx' = "done"
    /\ sret' = serr
    /\ spc' = "returned"
    /\ UNCHANGED <<sAlive, serr, sexit, wg, doneMain, doneWatcher, qe, kills,
                   tasks, srvClosed, migrateVars>>
    /\ UNCHANGED <<streamVars, slog>>
    /\ UNCHANGED <<flags, qargs>>

\* main lines 51-56: the process ends with the status of the error
ServeMainExit ==
    /\ sAlive /\ spc = "returned"
    /\ sAlive' = FALSE
    /\ sexit' = MainExitCode(sret)
    /\ UNCHANGED <<mainFlow, sctx, wg, doneMain, doneWatcher, qe, kills,
                   tasks, srvClosed, migrateVars>>
    /\ UNCHANGED <<streamVars, slog>>
    /\ UNCHANGED <<flags, qargs>>

\* runServe line 112: SIGINT or SIGTERM arrives
Signal ==
    /\ sAlive /\ sctx = "live"
    /\ sctx' = "done"
    /\ UNCHANGED <<sAlive, mainFlow, sexit, wg, doneMain, doneWatcher, qe,
                   kills, tasks, srvClosed, migrateVars>>
    /\ UNCHANGED <<streamVars, slog>>
    /\ UNCHANGED <<flags, qargs>>

\* runServe line 138: the handler calls the stop callback it was given
HandlerStop ==
    /\ sAlive /\ hpc = "serve" /\ srvClosed = "no"
    /\ sctx = "live"
    /\ sctx' = "done"
    /\ UNCHANGED <<sAlive, mainFlow, sexit, wg, doneMain, doneWatcher, qe,
                   kills, tasks, srvClosed, migrateVars>>
    /\ UNCHANGED <<streamVars, slog>>
    /\ UNCHANGED <<flags, qargs>>

\* runServe lines 146-149: ListenAndServe fails, log.Fatalln
HttpListenFails ==
    /\ sAlive /\ hpc = "serve" /\ srvClosed = "no"
    /\ sAlive' = FALSE
    /\ sexit' = 1
    /\ UNCHANGED <<mainFlow, sctx, wg, doneMain, doneWatcher, qe, kills,
                   tasks, srvClosed, migrateVars>>
    /\ UNCHANGED <<streamVars, slog>>
    /\ UNCHANGED <<flags, qargs>>

\* runServe lines 146-147: the server was closed, ListenAndServe returns
\* http.ErrServerClosed into the variable runServe returns
HttpServeReturns ==
    /\ sAlive /\ hpc = "serve" /\ srvClosed # "no"
    /\ serr' = Err("http: Server closed")
    /\ hpc' = "done"
    /\ UNCHANGED <<sAlive, spc, sret, sexit, sctx, wg, doneMain, doneWatcher,
                   qe, kills, wpc, xpc, srvClosed, migrateVars>>
    /\ UNCHANGED <<streamVars, slog>>
    /\ UNCHANGED <<flags, qargs>>

\* os.Process.Kill on the child, which nothing ever waits for
KillChild(c, ok) == IF ok /\ c = "running" THEN "killed" ELSE c

\* exec.CommandContext, line 33: its goroutine kills the child once ctx is
\* done
ExecContextKill(ok) ==
    /\ sAlive /\ xpc = "wait"
    /\ sctx = "done"
    /\ kills' = IF ok THEN kills + 1 ELSE kills
    /\ qe' = KillChild(qe, ok)
    /\ xpc' = "done"
    /\ UNCHANGED <<sAlive, mainFlow, sexit, sctx, wg, doneMain, doneWatcher,
                   wpc, hpc, srvClosed, migrateVars>>
    /\ UNCHANGED <<streamVars, slog>>
    /\ UNCHANGED <<flags, qargs>>

\* a variant of line 66 that does not wait for the context to be done
WatcherWakesEarly ==
    /\ sAlive /\ wpc = "wait"
    /\ wpc' = "kill"
    /\ UNCHANGED <<sAlive, mainFlow, sexit, sctx, wg, doneMain, doneWatcher,
                   qe, kills, xpc, hpc, srvClosed, migrateVars>>
    /\ UNCHANGED <<streamVars, slog>>
    /\ UNCHANGED <<flags, qargs>>

\* queryengine.Run line 66: <-ctx.Done()
WatcherWakes ==
    /\ sAlive /\ wpc = "wait"
    /\ sctx = "done"
    /\ wpc' = "kill"
    /\ UNCHANGED <<sAlive, mainFlow, sexit, sctx, wg, doneMain, doneWatcher,
                   qe, kills, xpc, hpc, srvClosed, migrateVars>>
    /\ UNCHANGED <<streamVars, slog>>
    /\ UNCHANGED <<flags, qargs>>

\* queryengine.Run lines 68-72: cmd.Process.Kill(), the outcome is logged
WatcherKills(ok) ==
    /\ sAlive /\ wpc = "kill"
    /\ kills' = IF ok THEN kills + 1 ELSE kills
    /\ qe' = KillChild(qe, ok)
    /\ wpc' = "wgDone"
    /\ slog' = slog \cup (IF ok THEN {} ELSE {"killing query engine"})
                    \cup {"query engine stopped"}
    /\ UNCHANGED <<sAlive, mainFlow, sexit, sctx, wg, doneMain, doneWatcher,
                   xpc, hpc, srvClosed, migrateVars>>
    /\ UNCHANGED streamVars
    /\ UNCHANGED <<flags, qargs>>

\* queryengine.Run line 74: wg.Done()
WatcherDone ==
    /\ sAlive /\ wpc = "wgDone"
    /\ doneWatcher' = doneWatcher + 1
    /\ wg' = wg - 1
    /\ IF wg' < 0
       THEN /\ ServeCrash
            /\ wpc' = wpc
       ELSE /\ wpc' = "done"
            /\ UNCHANGED <<sAlive, sexit>>
    /\ UNCHANGED <<mainFlow, sctx, doneMain, qe, kills, xpc, hpc, srvClosed,
                   migrateVars>>
    /\ UNCHANGED <<streamVars, slog>>
    /\ UNCHANGED <<flags, qargs>>

\* the query engine ends on its own
QueryEngineExits ==
    /\ sAlive /\ qe = "running"
    /\ qe' = "exited"
    /\ UNCHANGED <<sAlive, mainFlow, sexit, sctx, wg, doneMain, doneWatcher,
                   kills, tasks, srvClosed, migrateVars>>
    /\ UNCHANGED <<streamVars, slog>>
    /\ UNCHANGED <<flags, qargs>>

\* the query engine writes a line to one of its streams; with the read end
\* closed the write fails (EPIPE) and the line is lost
QueryEngineWrites(s) ==
    /\ sAlive /\ qe = "running"
    /\ written[s] < MaxLines
    /\ written' = [written EXCEPT ![s] = @ + 1]
    /\ pending' = IF qpipe[s] = "open"
                  THEN [pending EXCEPT ![s] = @ + 1]
                  ELSE pending
    /\ UNCHANGED <<sAlive, mainFlow, sexit, sctx, wg, doneMain, doneWatcher,
                   qe, kills, tasks, srvClosed, qpipe, fpc, forwarded, slog,
                   migrateVars>>
    /\ UNCHANGED <<flags, qargs>>

\* lines 41-44 and 54-57: scanner.Scan() yields a line, which is logged
Forward(s) ==
    /\ sAlive /\ fpc[s] = "scan"
    /\ qpipe[s] = "open"
    /\ pending[s] > 0
    /\ pending' = [pending EXCEPT ![s] = @ - 1]
    /\ forwarded' = [forwarded EXCEPT ![s] = @ + 1]
    /\ UNCHANGED <<sAlive, mainFlow, sexit, sctx, wg, doneMain, doneWatcher,
                   qe, kills, tasks, srvClosed, qpipe, fpc, written, slog,
                   migrateVars>>
    /\ UNCHANGED <<flags, qargs>>

\* lines 42 and 55: scanner.Scan() returns false, on a read end that was
\* closed or on the end of the stream of an ended child; the goroutine ends
ForwarderStops(s) ==
    /\ sAlive /\ fpc[s] = "scan"
    /\ \/ qpipe[s] = "closed"
       \/ pending[s] = 0 /\ qe \in {"exited", "killed"}
    /\ fpc' = [fpc EXCEPT ![s] = "done"]
    /\ UNCHANGED <<sAlive, mainFlow, sexit, sctx, wg, doneMain, doneWatcher,
                   qe, kills, tasks, srvClosed, qpipe, pending, written,
                   forwarded, slog, migrateVars>>
    /\ UNCHANGED <<flags, qargs>>

ServeNext ==
    \/ ServeStart
    \/ RunServeInit
    \/ \E ok \in BOOLEAN : QStdoutPipe(ok)
    \/ \E ok \in BOOLEAN : QStderrPipe(ok)
    \/ \E ok \in BOOLEAN : QStart(ok)
    \/ QStartWatcher
    \/ RunServeRunFailed
    \/ RunServeServe
    \/ RunServeCtxDone
    \/ \E ok \in BOOLEAN : RunServeClose(ok)
    \/ RunServeCheck
    \/ RunServeDone
    \/ RunServeWait
    \/ RunServeReturnNil
    \/ RunServeReturn
    \/ ServeMainExit
    \/ Signal
    \/ HandlerStop
    \/ HttpListenFails
    \/ HttpServeReturns
    \/ \E ok \in BOOLEAN : ExecContextKill(ok)
    \/ WatcherWakes
    \/ \E ok \in BOOLEAN : WatcherKills(ok)
    \/ WatcherDone
    \/ QueryEngineExits
    \/ \E s \in Streams : QueryEngineWrites(s)
    \/ \E s \in Streams : Forward(s)
    \/ \E s \in Streams : ForwarderStops(s)

ServeSpec == ServeInit /\ [][ServeNext]_vars

\* the steps of runServe's main flow, queryengine.Run included
MainSteps ==
    \/ RunServeInit
    \/ \E ok \in BOOLEAN : QStdoutPipe(ok)
    \/ \E ok \in BOOLEAN : QStderrPipe(ok)
    \/ \E ok \in BOOLEAN : QStart(ok)
    \/ QStartWatcher
    \/ RunServeRunFailed
    \/ RunServeServe
    \/ RunServeCtxDone
    \/ \E ok \in BOOLEAN : RunServeClose(ok)
    \/ RunServeCheck
    \/ RunServeDone
    \/ RunServeWait
    \/ RunServeReturnNil
    \/ RunServeReturn

\* the steps of the watcher goroutine
WatcherSteps ==
    \/ WatcherWakes
    \/ \E ok \in BOOLEAN : WatcherKills(ok)
    \/ WatcherDone

\* the Go scheduler runs every goroutine that can take a step
ServeFairness ==
    /\ WF_vars(MainSteps)
    /\ WF_vars(WatcherSteps)
    /\ WF_vars(\E ok \in BOOLEAN : ExecContextKill(ok))
    /\ WF_vars(HttpServeReturns)
    /\ WF_vars(\E s \in Streams : Forward(s) \/ ForwarderStops(s))

ServeLive == ServeSpec /\ ServeFairness

(* ------------------------------------------------------------------ *)
(* Claims about migrate.Database (checked under Spec)                  *)
(* ------------------------------------------------------------------ *)

\* a `wunderbase migrate` process has ended; the variables of the process
\* keep their last values
Ended == ~alive /\ calls > 0

\* Database went past the lock gate of lines 57-64
Attempted == ctxErr # "unset"

\* Database has returned to runMigrate
Returned == pc = "returned"

NonNil(e) == e # NoErr /\ e # Err("none")

\* ioutil.WriteFile of the lock file was called and returned an error
WriteFailed == ret = Err("migration write lock file")

\* the running call follows a call that was made with the same schema text
FollowsSameSchema ==
    /\ alive /\ prev.valid
    /\ schema = prev.schema
    /\ pc \notin {"readSchema", "gate"}

\* C1: whenever a call Database(S) parsed a response envelope and returned,
\* the process ending normally, the next call Database(S) is skipped and
\* spawns nothing, and the engine ran exactly once across the two calls.
C1_Idempotence ==
    (FollowsSameSchema /\ prev.resp.set /\ prev.exit = 0)
        => (skipped /\ spawned = 0 /\ prev.spawned + spawned = 1)

\* the previous call got an error-free response
PrevClean == prev.valid /\ prev.resp.set /\ ~prev.resp.err

\* the running call follows a clean call made with another schema text
FollowsOtherSchema ==
    /\ alive /\ PrevClean
    /\ schema # prev.schema
    /\ pc # "readSchema"

\* C2: after a call Database(S1) that got a clean response, and in which no
\* write of the lock file failed, the lock file holds the value computed for
\* S1; a following call Database(S2), S2 # S1, is not skipped.
C2_LockCorrectness ==
    /\ (Ended /\ resp.set /\ ~resp.err /\ ~WriteFailed)
           => lock = File(Expected(schema))
    /\ (FollowsOtherSchema /\ Returned) => ~skipped

\* C3: whenever the engine answered with an error envelope, which the
\* coordinator received and recorded, the lock file holds the value of the
\* attempted schema and Database has returned an error carrying the
\* engine's error body.
C3_FailureStillRecords ==
    (Ended /\ resp.set /\ resp.err /\ got = NoErr /\ wrote)
        => /\ lock = File(Expected(schema))
           /\ Returned
           /\ ret = ErrBody("migration failed", resp.msg)

\* C4: whenever an attempt ends without a parsed response envelope, the lock
\* file is what it was before the call and Database has returned a non-nil
\* error.
C4_NoUpdateOnProtocolFailure ==
    (Ended /\ Attempted /\ ~resp.set)
        => /\ lock = lockBefore
           /\ Returned
           /\ NonNil(ret)

\* the request write of line 90 waits for room in a pipe nothing reads
BlockedInWrite == alive /\ pc = "write" /\ RequestLen(schema) > PipeBuf

\* C5: against an engine that never writes a newline, Database is never
\* stuck in a step of the attempt, and an attempt that is over has returned
\* a non-nil error.
C5_TimeoutBound ==
    /\ ~BlockedInWrite
    /\ (Ended /\ Attempted /\ eout < 2) => (Returned /\ NonNil(ret))

\* C8: when the lock file is absent or unreadable, Database returns the
\* lock-read error, spawns no engine, writes no request and leaves the lock
\* file absent.
C8_MissingLockIsFatal ==
    (calls > 0 /\ ~lockBefore.exists /\ pc # "readSchema")
        => /\ pc \in {"gate", "returned"}
           /\ (Returned => ret = Err("read lock file"))
           /\ ~skipped
           /\ spawned = 0
           /\ inPipe = NoRequest /\ inState = "none"
           /\ ~Attempted
           /\ lock = NoFile

C8_Witness ==
    /\ calls > 0 /\ ~lockBefore.exists
    /\ Returned /\ ret = Err("read lock file")
    /\ lock = NoFile

\* C9: whenever Database returned, the process exits with status 0 exactly
\* when Database returned nil.
C9_ErrorPropagation ==
    (Ended /\ Returned) => (exit = 0 <=> ret = NoErr)

\* C11: the value written to the lock file is a SHA-256 digest: after a
\* lock write that returned nil the lock file is exactly as long as one
\* digest, whatever the schema text.
C11_LockIsDigest ==
    (calls > 0 /\ wrote) => Len(lock.data) = Len(Sha256Empty)

\* C12: a lock file that is present holds either what it held before the
\* attempt or the complete value of the attempted schema.
C12_LockNeverPartial ==
    (calls > 0 /\ lock.exists)
        => (lock = lockBefore \/ lock = File(Expected(schema)))

\* the bounded context is done
CtxDone == ctxErr \in {"canceled", "deadline"}

\* everything the engine has written to its standard output so far
EngineLine == outBuf \o rbuf \o outPipe

\* the engine wrote one complete line holding an envelope without an error
WroteCleanLine ==
    /\ eout = 2
    /\ UnmarshalOk(EngineLine)
    /\ EngineLine[1].kind = "result"

\* C13: whenever the engine wrote one complete clean envelope line before
\* any deadline, and no write of the lock file failed, the call ends with
\* `expected` in the lock file and nil as its result.
C13_ResponseWinsRace ==
    (Ended /\ WroteCleanLine /\ ctxErr # "deadline" /\ ~WriteFailed)
        => (lock = File(Expected(schema)) /\ ret = NoErr)

\* C14: errs is closed at most once, and no goroutine panics on it (close
\* of a closed channel, send on a closed channel).
C14_ErrChannelSafety ==
    closes <= 1 /\ ~panicking /\ panicBy = ""

\* C16: the request is in the stdin pipe only once the engine was spawned;
\* the stdin pipe is not left open when Database has returned.
C16_HandshakeOrder ==
    /\ (calls > 0 /\ inPipe # NoRequest) => spawned >= 1
    /\ Returned => inState # "open"

\* the reader goroutine has seen the newline and called cancel()
ReaderCancelled == ctxErr = "canceled" /\ pc # "returned"

\* C17: the run goroutine goes on to send only with a non-nil error and a
\* context that is not done; and once the reader has cancelled the context
\* the run goroutine sends nothing and the coordinator receives no run
\* error.
C17_Suppression ==
    [][/\ (rpc = "check" /\ rpc' = "send")
              => (runErr # NoErr /\ ~CtxDone)
       /\ (ReaderCancelled /\ rpc = "send")
              => /\ rpc' = "send"
                 /\ panicBy' # "run goroutine: send on closed channel"
       /\ (ReaderCancelled /\ pc = "recv")
              => got' # Err("migration engine run")]_vars

(* ------------------------------------------------------------------ *)
(* Claims about runServe and queryengine.Run (checked under ServeSpec) *)
(* ------------------------------------------------------------------ *)

\* the query engine was started
EngineStarted == qe # "none"

\* runServe has returned
ServeReturned == spc = "returned"

\* runServe has returned after a shutdown in which srv.Close() returned nil
ClosedAndReturned == ServeReturned /\ EngineStarted /\ srvClosed = "nil"

\* C6: once the context is cancelled the child is sent the kill signal not
\* twice, and not zero times by the time runServe has returned nil.
C6_KillExactlyOnce ==
    /\ kills <= 1
    /\ (ServeReturned /\ sret = NoErr /\ EngineStarted) => kills >= 1

\* what C7 says in every state: each producer calls Done at most once, the
\* watcher only after its kill call returned, the counter is 2 less the
\* calls made, is never negative, and is 0 only after both have called Done
WaitGroupDiscipline ==
    /\ doneMain <= 1 /\ doneWatcher <= 1
    /\ (doneWatcher = 1 => wpc = "done")
    /\ (sctx # "none" => wg = 2 - doneMain - doneWatcher)
    /\ wg >= 0
    /\ (sctx # "none" /\ wg = 0 => doneMain = 1 /\ doneWatcher = 1)

\* C7: the wait-group discipline holds, and in every execution in which the
\* engine started and the server was closed without an error, each producer
\* has called Done exactly once by the time runServe returns.
C7_WaitGroup ==
    /\ WaitGroupDiscipline
    /\ ClosedAndReturned => (doneMain = 1 /\ doneWatcher = 1)

\* the watcher goroutine has issued its kill and called wg.Done()
WatcherFinished == wpc = "done" /\ doneWatcher = 1

\* C10: once the engine was started, runServe has not returned from a
\* shutdown, in which the server was closed without an error, unless the
\* watcher has issued the kill and marked its unit complete.
C10_ShutdownOrder ==
    ClosedAndReturned => WatcherFinished

\* queryengine.Run has started the watcher and returned nil
RunReturnedNil == wpc # "none"

\* C15: while the child runs after Run returned nil, the parent's read end
\* of each stream is open and its forwarding goroutine is scanning; a
\* forwarding goroutine that has stopped has forwarded every line written.
C15_StreamForwarding ==
    \A s \in Streams :
        /\ (RunReturnedNil /\ sAlive /\ qe = "running")
               => (qpipe[s] = "open" /\ fpc[s] = "scan")
        /\ (fpc[s] = "done") => (forwarded[s] = written[s])

\* the state of the supervisor
SupState ==
    IF wpc = "wait" THEN "Running"
    ELSE IF wpc = "kill" THEN "Stopping"
    ELSE IF wpc \in {"wgDone", "done"} THEN "Stopped"
    ELSE IF spc \in {"off", "notify"} THEN "NotStarted"
    ELSE IF spc \in {"qStdoutPipe", "qStderrPipe", "qStart", "qWatcher"}
         THEN "Starting"
    ELSE "Stopped"

SupEdges ==
    { <<"NotStarted", "Starting">>, <<"Starting", "Running">>,
      <<"Starting", "Stopped">>, <<"Running", "Stopping">>,
      <<"Stopping", "Stopped">> }

\* Run has returned an error: a pipe or the child could not be started
StartFailed == spc = "runFailed"

\* C18: the supervisor moves along NotStarted -> Starting -> Running ->
\* Stopping -> Stopped, or Starting -> Stopped on a start failure; a start
\* failure is returned with no watcher started and the wait-group left at
\* 2; the child is sent a kill only once the context is done.
C18_SupervisorStateMachine ==
    /\ [](StartFailed =>
             /\ serr # NoErr
             /\ wpc = "none" /\ qe = "none"
             /\ wg = 2 /\ doneWatcher = 0)
    /\ []((SupState = "Stopping" \/ kills > 0) => sctx = "done")
    /\ [][/\ SupState' # SupState => <<SupState, SupState'>> \in SupEdges
          /\ kills' # kills => sctx = "done"]_vars

C18_Witness ==
    SupState = "Stopped" /\ wpc = "done" /\ kills >= 1 /\ sctx = "done"

\* the shutdown is complete
ShutdownComplete ==
    doneMain = 1 /\ doneWatcher = 1 /\ wg = 0 /\ ServeReturned

\* log.Fatalln of the HTTP goroutine has ended the process
ListenFatal == ~sAlive /\ sexit = 1 /\ spc # "returned"

\* C19: once the context is cancelled with the engine started, both
\* producers eventually call Done, the counter reaches 0 and runServe
\* returns, unless the server fails to listen or to close.
C19_ShutdownLiveness ==
    (EngineStarted /\ sAlive /\ sctx = "done")
        ~> (ShutdownComplete \/ ListenFatal \/ srvClosed = "error")

\* the child has ended on its own and the context is not cancelled
UnexpectedExit == sAlive /\ qe = "exited" /\ sctx = "live"

\* C20: when the child ends on its own with the context live, the watcher
\* has not called Done and no kill was sent, and the supervisor eventually
\* logs a message, unless the context is cancelled or the process ends
\* first.
C20_UnexpectedExit ==
    /\ [](UnexpectedExit => (doneWatcher = 0 /\ kills = 0 /\ serr = NoErr))
    /\ UnexpectedExit ~> (slog # {} \/ sctx # "live" \/ ~sAlive)

\* the arguments that follow the schema path
RestArgs == SubSeq(qargs, 3, Len(qargs))

\* C21: a started query engine was given `--datamodel-path <path>` first,
\* then `--enable-playground --port <port>` exactly when production is
\* false, then `--debug --log-queries` exactly when debug is true, and
\* nothing else; an engine that was not started was given nothing.
C21_ArgumentList ==
    /\ (qe = "none") => (qargs = <<>>)
    /\ (qe # "none") =>
        /\ Len(qargs) = 2 + (IF flags.production THEN 0 ELSE 3)
                          + (IF flags.debug THEN 2 ELSE 0)
        /\ SubSeq(qargs, 1, 2) = <<"--datamodel-path", SchemaFilePath>>
        /\ ~flags.production <=>
               /\ Len(RestArgs) >= 3
               /\ SubSeq(RestArgs, 1, 3) =
                      <<"--enable-playground", "--port", QueryEnginePort>>
        /\ flags.debug <=>
               /\ Len(RestArgs) >= 2
               /\ SubSeq(RestArgs, Len(RestArgs) - 1, Len(RestArgs)) =
                      <<"--debug", "--log-queries">>

C21_Witness ==
    /\ qe = "running"
    /\ flags = [production |-> TRUE, debug |-> TRUE]
    /\ qargs = <<"--datamodel-path", SchemaFilePath, "--debug",
                 "--log-queries">>

====
